---------------------------- MODULE Spec2Model ----------------------------
(***************************************************************************)
(* Model of shoop.utils._united_decimal: UnitedDecimal, a decimal.Decimal  *)
(* subclass whose concrete subclasses are units that must not be mixed,    *)
(* and UnitMixupError.                                                     *)
(*                                                                         *)
(* A Python value is a record [cls, val]: cls is the name of its concrete  *)
(* class, val its magnitude as an exact fraction in lowest terms.  The     *)
(* model covers finite magnitudes, and takes a quotient only where it is   *)
(* a finite decimal, so the decimal context (28 digits) never rounds.      *)
(* The outcome of a call is a record [exc, ret, args]: exc is "none" and   *)
(* ret the tuple of returned values, or exc names the exception raised     *)
(* and args holds what the exception stores.                               *)
(***************************************************************************)
EXTENDS Integers, Sequences, FiniteSets, TLC

VARIABLES cur, last

vars == <<cur, last>>

\* Bounds of the model.
MaxMag == 1       \* operands have numerators in -MaxMag..MaxMag
MaxDen == 2       \* and denominators in 1..MaxDen
MaxNum == 3       \* results are kept while |numerator| <= MaxNum
MaxResDen == 2    \* and denominator <= MaxResDen
MaxDigits == 1    \* round / quantize to 0..MaxDigits fractional digits

\* The concrete unit classes named by the class docstring.
UnitClasses == {"TaxfulPrice", "TaxlessPrice"}

-----------------------------------------------------------------------------
\* Exact fractions: the magnitudes of decimal.Decimal, int and float values.

Abs(n) == IF n < 0 THEN -n ELSE n

RECURSIVE GCD(_, _)
GCD(a, b) == IF b = 0 THEN a ELSE GCD(b, a % b)

\* n/d in lowest terms with a positive denominator (d # 0).
Frac(n, d) ==
    LET g == GCD(Abs(n), Abs(d))
        s == IF d < 0 THEN -1 ELSE 1
    IN  [n |-> (s * n) \div g, d |-> (s * d) \div g]

Zero == Frac(0, 1)
IsZero(x) == x.n = 0

FAdd(x, y) == Frac(x.n * y.d + y.n * x.d, x.d * y.d)
FNeg(x) == [n |-> -x.n, d |-> x.d]
FSub(x, y) == FAdd(x, FNeg(y))
FMul(x, y) == Frac(x.n * y.n, x.d * y.d)
FDiv(x, y) == Frac(x.n * y.d, x.d * y.n)
FAbs(x) == [n |-> Abs(x.n), d |-> x.d]
FLt(x, y) == x.n * y.d < y.n * x.d
FLe(x, y) == x.n * y.d <= y.n * x.d

\* Integer part, truncated toward zero (d > 0).
Trunc(n, d) == IF n >= 0 THEN n \div d ELSE -((-n) \div d)

\* Decimal's integer quotient truncates toward zero; its remainder takes the
\* sign of the dividend.
FQuot(x, y) == Frac(Trunc(x.n * y.d * (IF y.n < 0 THEN -1 ELSE 1), x.d * Abs(y.n)), 1)
FRem(x, y) == FSub(x, FMul(y, FQuot(x, y)))

RECURSIVE Pow10(_)
Pow10(k) == IF k = 0 THEN 1 ELSE 10 * Pow10(k - 1)

\* Nearest integer to n/d (d > 0), ties to the even one (ROUND_HALF_EVEN).
HalfEven(n, d) ==
    LET f == n \div d
        r == n - f * d
    IN  IF 2 * r < d THEN f
        ELSE IF 2 * r > d THEN f + 1
        ELSE IF f % 2 = 0 THEN f ELSE f + 1

\* x rounded half-even to k fractional digits.
FRound(x, k) == Frac(HalfEven(x.n * Pow10(k), x.d), Pow10(k))

RECURSIVE Strip(_, _)
Strip(d, p) == IF d % p = 0 THEN Strip(d \div p, p) ELSE d

\* x has a finite decimal expansion / a finite binary expansion.
IsFiniteDecimal(x) == Strip(Strip(x.d, 2), 5) = 1
IsDyadic(x) == Strip(x.d, 2) = 1

InRange(x) == Abs(x.n) <= MaxNum /\ x.d <= MaxResDen

-----------------------------------------------------------------------------
\* Python values and call outcomes.

Val(cls, f) == [cls |-> cls, val |-> f]
None == Val("NoneType", Zero)
Bool(b) == Val("bool", IF b THEN Frac(1, 1) ELSE Zero)

\* isinstance(x, UnitedDecimal)
IsUnitedDecimal(x) == x.cls \in UnitClasses

Return(vs) == [exc |-> "none", ret |-> vs, args |-> <<>>]
Raise(e) == [exc |-> e, ret |-> <<>>, args |-> <<>>]
Raised(r) == r.exc # "none"

\* UnitMixupError(obj1, obj2): the two objects are stored on the exception.
UnitMixupError(obj1, obj2) ==
    [exc |-> "UnitMixupError", ret |-> <<>>, args |-> <<obj1, obj2>>]

-----------------------------------------------------------------------------
\* The decimal.Decimal methods UnitedDecimal reaches through super() or
\* inherits.  They work on magnitudes and return plain Decimal values; a zero
\* divisor signals DivisionByZero or InvalidOperation (DecimalException).

Decimal__truediv__(self, other) ==
    IF IsZero(other.val) THEN Raise("DecimalException")
    ELSE Return(<<Val("Decimal", FDiv(self.val, other.val))>>)

Decimal__floordiv__(self, other) ==
    IF IsZero(other.val) THEN Raise("DecimalException")
    ELSE Return(<<Val("Decimal", FQuot(self.val, other.val))>>)

Decimal__mod__(self, other) ==
    IF IsZero(other.val) THEN Raise("DecimalException")
    ELSE Return(<<Val("Decimal", FRem(self.val, other.val))>>)

Decimal__divmod__(self, other) ==
    IF IsZero(other.val) THEN Raise("DecimalException")
    ELSE Return(<<Val("Decimal", FQuot(self.val, other.val)),
                  Val("Decimal", FRem(self.val, other.val))>>)

\* Reflected forms: the operands swap places.
Decimal__rtruediv__(self, other) == Decimal__truediv__(other, self)
Decimal__rfloordiv__(self, other) == Decimal__floordiv__(other, self)

-----------------------------------------------------------------------------
\* UnitedDecimal.

\* value: Decimal(self)
value(self) == Val("Decimal", self.val)

\* The matching rule of a concrete unit: other is a UnitedDecimal of the same
\* concrete class.  (The base class leaves it to the subclasses.)
unit_matches_with(self, other) ==
    IsUnitedDecimal(other) /\ other.cls = self.cls

\* new building a plain Decimal instead of type(self).
NewPlainDecimal(self, v) == Val("Decimal", v.val)

\* new: type(self)(value)
new(self, v) == Val(self.cls, v.val)

_check_units_match(self, other) ==
    IF ~unit_matches_with(self, other) THEN UnitMixupError(self, other)
    ELSE Return(<<>>)

__lt__(self, other) ==
    LET c == _check_units_match(self, other)
    IN  IF Raised(c) THEN c ELSE Return(<<Bool(FLt(self.val, other.val))>>)

__le__(self, other) ==
    LET c == _check_units_match(self, other)
    IN  IF Raised(c) THEN c ELSE Return(<<Bool(FLe(self.val, other.val))>>)

__gt__(self, other) ==
    LET c == _check_units_match(self, other)
    IN  IF Raised(c) THEN c ELSE Return(<<Bool(FLt(other.val, self.val))>>)

__ge__(self, other) ==
    LET c == _check_units_match(self, other)
    IN  IF Raised(c) THEN c ELSE Return(<<Bool(FLe(other.val, self.val))>>)

\* __eq__ comparing magnitudes whatever the units.
EqIgnoringUnits(self, other) == Return(<<Bool(self.val = other.val)>>)

__eq__(self, other) ==
    IF ~unit_matches_with(self, other) THEN Return(<<Bool(FALSE)>>)
    ELSE Return(<<Bool(self.val = other.val)>>)

__ne__(self, other) ==
    IF ~unit_matches_with(self, other) THEN Return(<<Bool(TRUE)>>)
    ELSE Return(<<Bool(self.val # other.val)>>)

__add__(self, other) ==
    LET c == _check_units_match(self, other)
    IN  IF Raised(c) THEN c
        ELSE Return(<<new(self, Val("Decimal", FAdd(self.val, other.val)))>>)

__sub__(self, other) ==
    LET c == _check_units_match(self, other)
    IN  IF Raised(c) THEN c
        ELSE Return(<<new(self, Val("Decimal", FSub(self.val, other.val)))>>)

\* __mul__ checking units before it rejects a UnitedDecimal.
MulCheckingUnits(self, other) ==
    LET c == _check_units_match(self, other)
    IN  IF IsUnitedDecimal(other) /\ Raised(c) THEN c
        ELSE IF IsUnitedDecimal(other) THEN Raise("TypeError")
        ELSE Return(<<new(self, Val("Decimal", FMul(self.val, other.val)))>>)

__mul__(self, other) ==
    IF IsUnitedDecimal(other) THEN Raise("TypeError")
    ELSE Return(<<new(self, Val("Decimal", FMul(self.val, other.val)))>>)

__neg__(self) == new(self, Val("Decimal", FNeg(self.val)))

__radd__(self, other) == __add__(self, other)

\* __rsub__ subtracting the wrong way round.
RsubAsSub(self, other) == __sub__(self, other)

__rsub__(self, other) == __add__(__neg__(self), other)

__rmul__(self, other) == __mul__(self, other)

\* __truediv__ wrapping every quotient in new.
TruedivKeepingUnit(self, other) ==
    LET c == _check_units_match(self, other)
        v == Decimal__truediv__(self, other)
    IN  IF IsUnitedDecimal(other) /\ Raised(c) THEN c
        ELSE IF Raised(v) THEN v
        ELSE Return(<<new(self, v.ret[1])>>)

__truediv__(self, other) ==
    IF IsUnitedDecimal(other)
    THEN LET c == _check_units_match(self, other)
         IN  IF Raised(c) THEN c ELSE Decimal__truediv__(self, other)
    ELSE LET v == Decimal__truediv__(self, other)
         IN  IF Raised(v) THEN v ELSE Return(<<new(self, v.ret[1])>>)

\* __rtruediv__ checking units before the type of other.
RtruedivCheckFirst(self, other) ==
    LET c == _check_units_match(self, other)
    IN  IF Raised(c) THEN c
        ELSE IF ~IsUnitedDecimal(other) THEN Raise("TypeError")
        ELSE Decimal__rtruediv__(self, other)

__rtruediv__(self, other) ==
    IF ~IsUnitedDecimal(other) THEN Raise("TypeError")
    ELSE LET c == _check_units_match(self, other)
         IN  IF Raised(c) THEN c ELSE Decimal__rtruediv__(self, other)

\* __floordiv__ without the unit check.
FloordivUnchecked(self, other) ==
    IF ~IsUnitedDecimal(other) THEN Raise("TypeError")
    ELSE Decimal__floordiv__(self, other)

__floordiv__(self, other) ==
    IF ~IsUnitedDecimal(other) THEN Raise("TypeError")
    ELSE LET c == _check_units_match(self, other)
         IN  IF Raised(c) THEN c ELSE Decimal__floordiv__(self, other)

__rfloordiv__(self, other) ==
    IF ~IsUnitedDecimal(other) THEN Raise("TypeError")
    ELSE LET c == _check_units_match(self, other)
         IN  IF Raised(c) THEN c ELSE Decimal__rfloordiv__(self, other)

\* __mod__ returning Decimal's remainder as it is, not through new.
ModWithoutNew(self, other) ==
    IF ~IsUnitedDecimal(other) THEN Raise("TypeError")
    ELSE LET c == _check_units_match(self, other)
         IN  IF Raised(c) THEN c ELSE Decimal__mod__(self, other)

__mod__(self, other) ==
    IF ~IsUnitedDecimal(other) THEN Raise("TypeError")
    ELSE LET c == _check_units_match(self, other)
             m == Decimal__mod__(self, other)
         IN  IF Raised(c) THEN c
             ELSE IF Raised(m) THEN m
             ELSE Return(<<new(self, m.ret[1])>>)

__divmod__(self, other) ==
    IF ~IsUnitedDecimal(other) THEN Raise("TypeError")
    ELSE LET c == _check_units_match(self, other)
             dm == Decimal__divmod__(self, other)
         IN  IF Raised(c) THEN c
             ELSE IF Raised(dm) THEN dm
             ELSE Return(<<dm.ret[1], new(self, dm.ret[2])>>)

\* __rmod__ and __rdivmod__ are not overridden: Decimal's own run, with the
\* other operand converted to Decimal as the dividend.
__rmod__(self, other) == Decimal__mod__(other, self)
__rdivmod__(self, other) == Decimal__divmod__(other, self)

__pow__(self, other) == Raise("TypeError")

__pos__(self) == new(self, Val("Decimal", self.val))

__abs__(self) == new(self, Val("Decimal", FAbs(self.val)))

__int__(self) == Val("int", Frac(Trunc(self.val.n, self.val.d), 1))

\* The float nearest to the magnitude (taken where it is the magnitude).
__float__(self) == Val("float", self.val)

__round__(self, ndigits) == new(self, Val("Decimal", FRound(self.val, ndigits)))

\* quantize(exp): rounded to the exponent of exp, here -digits.
quantize(self, digits) == new(self, Val("Decimal", FRound(self.val, digits)))

copy_negate(self) == new(self, Val("Decimal", FNeg(self.val)))

-----------------------------------------------------------------------------
\* The state: cur is the UnitedDecimal the next operation is invoked on, last
\* records the latest operation, its operands and its outcome.  A UnitedDecimal
\* an operation returns becomes cur, so operations chain.

\* The magnitudes operands are drawn from: finite decimals only.
InputMags ==
    {x \in {Frac(n, d) : n \in -MaxMag..MaxMag, d \in 1..MaxDen} :
        IsFiniteDecimal(x)}
Uniteds == {Val(c, m) : c \in UnitClasses, m \in InputMags}
\* Plain numbers: an int where the magnitude is whole, a Decimal otherwise.
Plains == {Val(IF m.d = 1 THEN "int" ELSE "Decimal", m) : m \in InputMags}
Operands == Uniteds \cup Plains

Init ==
    /\ cur \in Uniteds
    /\ last = [op |-> "init", self |-> cur, other |-> None, res |-> Return(<<>>)]

\* The values an outcome carries stay within the bounds and are finite
\* decimals.
Kept(res) ==
    /\ \A i \in 1..Len(res.ret) :
           InRange(res.ret[i].val) /\ IsFiniteDecimal(res.ret[i].val)
    /\ \A i \in 1..Len(res.args) : InRange(res.args[i].val)

Step(op, other, res) ==
    /\ Kept(res)
    /\ last' = [op |-> op, self |-> cur, other |-> other, res |-> res]
    /\ cur' = IF ~Raised(res) /\ Len(res.ret) > 0
                   /\ IsUnitedDecimal(res.ret[Len(res.ret)])
              THEN res.ret[Len(res.ret)]
              ELSE cur

\* The application constructs an instance of a concrete unit.
Construct ==
    /\ cur' \in Uniteds
    /\ last' = [op |-> "init", self |-> cur', other |-> None, res |-> Return(<<>>)]

Value == Step("value", None, Return(<<value(cur)>>))
\* new is given a plain number, or the value of the instance itself.
New ==
    \E v \in Plains \cup {value(cur)} : Step("new", v, Return(<<new(cur, v)>>))
Lt == \E o \in Operands : Step("lt", o, __lt__(cur, o))
Le == \E o \in Operands : Step("le", o, __le__(cur, o))
Gt == \E o \in Operands : Step("gt", o, __gt__(cur, o))
Ge == \E o \in Operands : Step("ge", o, __ge__(cur, o))
Eq == \E o \in Operands : Step("eq", o, __eq__(cur, o))
Ne == \E o \in Operands : Step("ne", o, __ne__(cur, o))
Add == \E o \in Operands : Step("add", o, __add__(cur, o))
Sub == \E o \in Operands : Step("sub", o, __sub__(cur, o))
Mul == \E o \in Operands : Step("mul", o, __mul__(cur, o))
RAdd == \E o \in Operands : Step("radd", o, __radd__(cur, o))
RSub == \E o \in Operands : Step("rsub", o, __rsub__(cur, o))
RMul == \E o \in Operands : Step("rmul", o, __rmul__(cur, o))
TrueDiv == \E o \in Operands : Step("truediv", o, __truediv__(cur, o))
RTrueDiv == \E o \in Operands : Step("rtruediv", o, __rtruediv__(cur, o))
FloorDiv == \E o \in Operands : Step("floordiv", o, __floordiv__(cur, o))
RFloorDiv == \E o \in Operands : Step("rfloordiv", o, __rfloordiv__(cur, o))
Mod == \E o \in Operands : Step("mod", o, __mod__(cur, o))
DivMod == \E o \in Operands : Step("divmod", o, __divmod__(cur, o))
\* other % self and divmod(other, self) reach the inherited reflected methods
\* when other is a plain number.
RMod == \E o \in Plains : Step("rmod", o, __rmod__(cur, o))
RDivMod == \E o \in Plains : Step("rdivmod", o, __rdivmod__(cur, o))
Pow == \E o \in Operands : Step("pow", o, __pow__(cur, o))
Neg == Step("neg", None, Return(<<__neg__(cur)>>))
Pos == Step("pos", None, Return(<<__pos__(cur)>>))
AbsOp == Step("abs", None, Return(<<__abs__(cur)>>))
IntOp == Step("int", None, Return(<<__int__(cur)>>))
FloatOp == IsDyadic(cur.val) /\ Step("float", None, Return(<<__float__(cur)>>))
Round ==
    \E k \in 0..MaxDigits :
        Step("round", Val("int", Frac(k, 1)), Return(<<__round__(cur, k)>>))
Quantize ==
    \E k \in 0..MaxDigits :
        Step("quantize", Val("Decimal", Frac(1, Pow10(k))),
             Return(<<quantize(cur, k)>>))
CopyNegate == Step("copy_negate", None, Return(<<copy_negate(cur)>>))

Next ==
    \/ Construct \/ Value \/ New
    \/ Lt \/ Le \/ Gt \/ Ge \/ Eq \/ Ne
    \/ Add \/ Sub \/ Mul \/ RAdd \/ RSub \/ RMul
    \/ TrueDiv \/ RTrueDiv \/ FloorDiv \/ RFloorDiv
    \/ Mod \/ DivMod \/ RMod \/ RDivMod \/ Pow
    \/ Neg \/ Pos \/ AbsOp \/ IntOp \/ FloatOp
    \/ Round \/ Quantize \/ CopyNegate

Spec == Init /\ [][Next]_vars

-----------------------------------------------------------------------------
\* Properties.  In each, a is last.self (the instance the operation was
\* invoked on), b is last.other and last.res is the outcome.

Mismatched(a, b) == ~unit_matches_with(a, b)
OtherUnit(a, b) == IsUnitedDecimal(b) /\ Mismatched(a, b)
SameUnit(a, b) == IsUnitedDecimal(b) /\ unit_matches_with(a, b)
Returned(v) == Return(<<v>>)

\* C1: between UnitedDecimals of different units, add, sub, the four ordering
\* comparisons, floor division, modulo and divmod each raise UnitMixupError
\* storing exactly (a, b): no value is returned and no plain TypeError raised.
C1_MismatchRaisesUnitMixup ==
    (/\ last.op \in {"add", "sub", "lt", "le", "gt", "ge",
                     "floordiv", "mod", "divmod"}
     /\ OtherUnit(last.self, last.other))
        => last.res = UnitMixupError(last.self, last.other)

\* The mismatch is reported even where the division itself would fail.
C1_Witness ==
    /\ last.op = "divmod"
    /\ OtherUnit(last.self, last.other)
    /\ IsZero(last.other.val)
    /\ last.res.exc = "UnitMixupError"

\* C2: == and != never raise; where units do not match (another unit or a
\* plain number) == is False and != is True; where they match the result is
\* that of comparing the two magnitudes.
C2_EqualityNeverRaises ==
    last.op \in {"eq", "ne"} =>
        /\ ~Raised(last.res)
        /\ Mismatched(last.self, last.other) =>
               last.res = Returned(Bool(last.op = "ne"))
        /\ ~Mismatched(last.self, last.other) =>
               last.res = Returned(Bool((last.op = "eq") <=>
                   (value(last.self).val = value(last.other).val)))

\* A plain number of the same magnitude is still not equal.
C2_Witness ==
    /\ last.op = "eq"
    /\ ~IsUnitedDecimal(last.other)
    /\ last.other.val = last.self.val
    /\ last.res = Returned(Bool(FALSE))

\* The operations that return an instance made by new.
UnitKeepingOps ==
    {"add", "sub", "radd", "rsub", "mul", "rmul", "mod", "neg", "pos", "abs",
     "round", "quantize", "copy_negate", "new"}
\* The operations that return a plain value.
UnitlessOps == {"value", "int", "float", "floordiv", "rfloordiv"}
\* The binary operations UnitedDecimal defines, == and != aside.
BinaryOps ==
    {"add", "sub", "mul", "radd", "rsub", "rmul", "truediv", "rtruediv",
     "floordiv", "rfloordiv", "mod", "divmod", "pow", "lt", "le", "gt", "ge"}

C4_PlainRightHandSucceeds ==
    (last.op \in {"radd", "rsub"} /\ ~IsUnitedDecimal(last.other)) =>
        last.res = Returned(Val(last.self.cls,
            IF last.op = "radd"
            THEN FAdd(last.other.val, value(last.self).val)
            ELSE FSub(last.other.val, value(last.self).val)))

\* C4 amended: with a plain number s, s + a and s - a each raise
\* UnitMixupError whose second stored object is s (for s + a the first is a);
\* with a UnitedDecimal b of a's unit in place of s they return an instance of
\* that unit holding b.value + a.value and b.value - a.value.
C4_PlainRightHandRaises ==
    last.op \in {"radd", "rsub"} =>
        /\ ~IsUnitedDecimal(last.other) =>
               /\ last.res.exc = "UnitMixupError"
               /\ last.res.ret = <<>>
               /\ last.res.args[2] = last.other
               /\ last.op = "radd" => last.res.args[1] = last.self
        /\ SameUnit(last.self, last.other) =>
               last.res = Returned(Val(last.self.cls,
                   IF last.op = "radd"
                   THEN FAdd(value(last.other).val, value(last.self).val)
                   ELSE FSub(value(last.other).val, value(last.self).val)))

C4_Witness ==
    /\ last.op = "rsub"
    /\ ~IsUnitedDecimal(last.other)
    /\ ~IsZero(last.other.val)
    /\ last.res.exc = "UnitMixupError"

\* C5: multiplying two UnitedDecimals raises the plain TypeError, never
\* UnitMixupError, whether or not the units match, by __mul__ and by __rmul__.
C5_UnitedProductIsTypeError ==
    (last.op \in {"mul", "rmul"} /\ IsUnitedDecimal(last.other)) =>
        last.res = Raise("TypeError")

C5_Witness ==
    /\ last.op = "rmul"
    /\ OtherUnit(last.self, last.other)
    /\ last.res.exc = "TypeError"

\* C6: with a plain number s, each of a // s, a % s, divmod(a, s), s // a,
\* s % a and divmod(s, a) raises the plain TypeError and returns nothing.
C6_PlainDivisionIsTypeError ==
    (/\ last.op \in {"floordiv", "mod", "divmod",
                     "rfloordiv", "rmod", "rdivmod"}
     /\ ~IsUnitedDecimal(last.other))
        => last.res = Raise("TypeError")

\* C7 as stated: other / a through __rtruediv__ never returns a value, whatever
\* other is, and raises the plain TypeError for a plain number.
C7_ReverseDivisionAlwaysFails ==
    last.op = "rtruediv" =>
        /\ last.res.exc \in {"TypeError", "UnitMixupError"}
        /\ ~IsUnitedDecimal(last.other) => last.res = Raise("TypeError")

\* C7 amended: __rtruediv__ raises the plain TypeError for a plain number and
\* UnitMixupError storing (a, other) for a UnitedDecimal of another unit; for
\* a UnitedDecimal of a's unit it returns the plain Decimal
\* other.value / a.value when a is not zero, and fails in the division
\* otherwise.
C7_ReverseDivisionBySameUnit ==
    last.op = "rtruediv" =>
        /\ ~IsUnitedDecimal(last.other) => last.res = Raise("TypeError")
        /\ OtherUnit(last.self, last.other) =>
               last.res = UnitMixupError(last.self, last.other)
        /\ SameUnit(last.self, last.other) =>
               last.res = IF IsZero(last.self.val)
                          THEN Raise("DecimalException")
                          ELSE Returned(Val("Decimal",
                                   FDiv(value(last.other).val,
                                        value(last.self).val)))

C7_Witness ==
    /\ last.op = "rtruediv"
    /\ SameUnit(last.self, last.other)
    /\ ~Raised(last.res)
    /\ ~IsZero(last.res.ret[1].val)
    /\ last.res.ret[1].val # last.other.val

\* C8: x = y.new(v) has a unit matching y's and x.value equal to v; and
\* a.new(a.value) == a.
C8_NewPostcondition ==
    last.op = "new" =>
        /\ ~Raised(last.res)
        /\ Len(last.res.ret) = 1
        /\ unit_matches_with(last.res.ret[1], last.self)
        /\ value(last.res.ret[1]).val = last.other.val
        /\ last.other = value(last.self) =>
               __eq__(last.res.ret[1], last.self) = Returned(Bool(TRUE))

C8_Witness ==
    /\ last.op = "new"
    /\ last.other = value(last.self)
    /\ ~IsZero(last.self.val)
    /\ last.res.ret[1] = last.self

\* C9: for b of a's unit and not zero, a / b returns the plain Decimal
\* a.value / b.value; for a plain number s other than zero, a / s returns an
\* instance of a's unit holding a.value / s, with no unit check on s.
C9_TrueDivision ==
    (last.op = "truediv" /\ ~IsZero(last.other.val)) =>
        /\ SameUnit(last.self, last.other) =>
               last.res = Returned(Val("Decimal",
                   FDiv(value(last.self).val, value(last.other).val)))
        /\ ~IsUnitedDecimal(last.other) =>
               last.res = Returned(Val(last.self.cls,
                   FDiv(value(last.self).val, last.other.val)))

C9_Witness ==
    /\ last.op = "truediv"
    /\ ~IsUnitedDecimal(last.other)
    /\ last.other.val.d # 1
    /\ ~Raised(last.res)
    /\ ~IsZero(last.res.ret[1].val)

\* C10: every UnitMixupError stores the operands of the operation unchanged:
\* first the instance the operation was invoked on, then the other operand.
C10_MixupStoresOperands ==
    last.res.exc = "UnitMixupError" =>
        last.res.args = <<last.self, last.other>>

=============================================================================
